---- MODULE Spec2Model ----
(***************************************************************************)
(* A model of the 3D floor-plan editor of frontend/src/pages:              *)
(*   - the placement editor (SimpleEditor of simple-editor.jsx and its     *)
(*     sticky-tool variant FloorEditor of index.jsx): the React state      *)
(*     placed / selectedId / placingType, the localStorage entry "layout"  *)
(*     and the handlers that change them;                                  *)
(*   - the mesh classifier assignMaterial and the per-mesh step of         *)
(*     FloorGLB's processScene (simple-editor.jsx).                        *)
(*                                                                         *)
(* Numbers are fixed-point integers: positions in tenths of a unit,        *)
(* rotations in multiples of pi/8, scales in hundredths, mesh sizes and    *)
(* centers in hundredths.  Strings that the code inspects character by     *)
(* character (mesh names, colour strings) are sequences of one-character   *)
(* strings.                                                                *)
(***************************************************************************)
EXTENDS Integers, Sequences, FiniteSets, TLC

VARIABLES
    variant,      \* which page component runs: "SimpleEditor" or "FloorEditor"
    mounted,      \* the mount effect (useEffect(..., [])) has run
    crashed,      \* a render threw on a malformed `placed`; React unmounted the tree
    placed,       \* useState([]): the JS value held by `placed`
    selectedId,   \* useState(null)
    placingType,  \* useState(null)
    store,        \* localStorage entry "layout"
    message,      \* what the last handler call showed the user (toast or alert),
                  \* "none" when it showed nothing
    now,          \* the reading Date.now() returns
    edits,        \* number of edit handler calls so far (bounds the exploration)
    saved,        \* history: the items handed to the last JSON.stringify, if any
    sinceSave,    \* history: "saved" right after saveLayout, "saved_cleared" right
                  \* after a clearLayout that directly followed it, else "none"
    mesh,         \* the mesh fragment under classification
    wallColor,    \* useState("#FFFFFF") of SimpleEditor, passed to FloorGLB
    forceWallMode,\* useState(false) of SimpleEditor, passed to FloorGLB
    outcome,      \* what processScene did to the cloned mesh
    floorUrl,     \* useState("/floor.glb") of the editor: the asset shown as floor
    isLoadingFloor,\* useState(false) of the editor: the busy flag of handleFloorUpload
    awaiting,     \* calls of handleFloorUpload suspended at `await fetch(...)`
    uploads,      \* number of conversion requests issued so far (bounds the exploration)
    resetDuring,  \* history: resetToDefaultFloor ran while the request that is
                  \* still outstanding was in flight
    file,         \* useState(null) of Uploader: a file is chosen
    isLoading,    \* useState(false) of Uploader: the busy flag of handleUpload
    uploading,    \* calls of handleUpload suspended at `await fetch(...)`
    glbUrl,       \* useState(null) of App
    appIsLoading, \* useState(false) of App (isLoading there)
    error,        \* useState(null) of App
    assets,       \* the scenes useGLTF holds, by url: the loaded assets
    loaded,       \* history: the assets as they were loaded
    floorGLB,     \* the mounted FloorGLB instance: its props, clonedScene, effect
    lastStarted   \* history: the props of the most recently started pass

editorVars == <<variant, mounted, crashed, placed, selectedId, placingType,
                store, message, now, edits, saved, sinceSave>>
floorVars == <<mesh, wallColor, forceWallMode, outcome>>
uploadVars == <<floorUrl, isLoadingFloor, awaiting, uploads, resetDuring,
                file, isLoading, uploading, glbUrl, appIsLoading, error>>
sceneVars == <<assets, loaded, floorGLB, lastStarted>>
vars == <<variant, mounted, crashed, placed, selectedId, placingType,
          store, message, now, edits, saved, sinceSave,
          mesh, wallColor, forceWallMode, outcome,
          floorUrl, isLoadingFloor, awaiting, uploads, resetDuring,
          file, isLoading, uploading, glbUrl, appIsLoading, error,
          assets, loaded, floorGLB, lastStarted>>

(***************************************************************************)
(* Bounds of the exploration.                                              *)
(***************************************************************************)
MaxItems == 2
MaxClock == 2
MaxEdits == 1
MaxUploads == 2

(***************************************************************************)
(* JavaScript values.                                                      *)
(***************************************************************************)
\* null, as held by selectedId (ids are clock readings, never negative)
Null == -1
\* null, as held by placingType
NoType == "null"
\* the furniture catalog: the "Place ..." buttons explored (the third, "sofa",
\* runs the same handler)
ItemTypes == {"chair", "table"}

\* A JS value that `placed` can hold: an array, or (after a load of a stored
\* value of another shape) something that is no array.
Arr(s) == [js |-> "array", elems |-> s]
NonArr(kind) == [js |-> kind, elems |-> <<>>]

ItemFields == {"id", "type", "position", "rotation", "scale", "color"}

\* `placed` is what the render expects: an array of complete item records
\* (placed.find / placed.map, item.position.map, `/models/${item.type}.glb`).
IsLayout(v) ==
    /\ v.js = "array"
    /\ \A i \in 1..Len(v.elems) : DOMAIN v.elems[i] = ItemFields

\* 0.5, the lift of a new item above the floor, in tenths
FixedLift == 5
\* 0xF5F5F5
DefaultColor == 16119285
\* 1 in hundredths: the scale [1, 1, 1] of a new item
ScaleOne == 100
\* 0.2, the step of nudge, in tenths
NudgeStep == 2
\* 1.1 and 0.9, the factors of scale, in hundredths
GrowFactor == 110
ShrinkFactor == 90

(***************************************************************************)
(* JSON.stringify and JSON.parse.  A stored text is absent, the empty      *)
(* string, text that is no JSON, or JSON text; JSON text is held as the    *)
(* document it spells: numbers, strings, arrays, and objects as ordered    *)
(* lists of members.                                                       *)
(***************************************************************************)
NoEntry == [kind |-> "absent"]
EmptyText == [kind |-> "empty"]
Garbage == [kind |-> "garbage"]
JsonText(doc) == [kind |-> "json", doc |-> doc]

JNum(n) == [j |-> "number", n |-> n]
JStr(s) == [j |-> "string", s |-> s]
JArr(s) == [j |-> "array", elems |-> s]
JObj(m) == [j |-> "object", members |-> m]
Member(k, v) == [key |-> k, value |-> v]

VecToJson(v) == JArr([i \in 1..Len(v) |-> JNum(v[i])])

\* ItemToJson with the color member left out
ItemToJson_NoColor(it) ==
    JObj(<< Member("id", JNum(it.id)),
            Member("type", JStr(it.type)),
            Member("position", VecToJson(it.position)),
            Member("rotation", VecToJson(it.rotation)),
            Member("scale", VecToJson(it.scale)) >>)

\* an item's members are written in the order its properties were created
ItemToJson(it) ==
    JObj(<< Member("id", JNum(it.id)),
            Member("type", JStr(it.type)),
            Member("position", VecToJson(it.position)),
            Member("rotation", VecToJson(it.rotation)),
            Member("scale", VecToJson(it.scale)),
            Member("color", JNum(it.color)) >>)

\* JSON.stringify(placed), for an array of items
Stringify(v) ==
    JsonText(JArr([i \in 1..Len(v.elems) |-> ItemToJson(v.elems[i])]))

\* JSON.parse throws a SyntaxError on text that is no JSON
Parseable(text) == text.kind = "json"

\* a member's value: a number, a string, or an array of numbers
ValueFromJson(d) ==
    IF d.j = "number" THEN d.n
    ELSE IF d.j = "string" THEN d.s
    ELSE [i \in 1..Len(d.elems) |-> d.elems[i].n]

\* the last member with a key wins
MemberValue(m, k) ==
    LET i == CHOOSE i \in 1..Len(m) :
                 /\ m[i].key = k
                 /\ \A j \in (i+1)..Len(m) : m[j].key # k
    IN  ValueFromJson(m[i].value)

\* an object: the record of its members
ElemFromJson(d) ==
    [k \in {d.members[i].key : i \in 1..Len(d.members)} |-> MemberValue(d.members, k)]

\* JSON.parse(data), for parseable text: an array of objects becomes an array
\* of records; a document of another shape becomes a value that is no array
Parse(text) ==
    IF text.doc.j = "array"
    THEN Arr([i \in 1..Len(text.doc.elems) |-> ElemFromJson(text.doc.elems[i])])
    ELSE NonArr(text.doc.j)

\* `if (data)`: null and the empty string are falsy
Truthy(text) == text.kind \notin {"absent", "empty"}

(***************************************************************************)
(* parseInt(color.replace('#', '0x')) of changeColor.  A colour string is  *)
(* a sequence of characters.                                               *)
(***************************************************************************)
HexDigits == <<"0", "1", "2", "3", "4", "5", "6", "7", "8", "9",
               "a", "b", "c", "d", "e", "f">>
UpperHexDigits == <<"0", "1", "2", "3", "4", "5", "6", "7", "8", "9",
                    "A", "B", "C", "D", "E", "F">>

IsHexDigit(c) == \E i \in 1..16 : HexDigits[i] = c \/ UpperHexDigits[i] = c
HexDigitValue(c) ==
    (CHOOSE i \in 1..16 : HexDigits[i] = c \/ UpperHexDigits[i] = c) - 1

\* what parseInt returns when no digit can be read
NotANumber == -2

\* String.prototype.replace with a string pattern: the first occurrence only
ReplaceHash(c) ==
    IF \E i \in 1..Len(c) : c[i] = "#"
    THEN LET i == CHOOSE i \in 1..Len(c) :
                      c[i] = "#" /\ \A j \in 1..(i-1) : c[j] # "#"
         IN  SubSeq(c, 1, i-1) \o <<"0", "x">> \o SubSeq(c, i+1, Len(c))
    ELSE c

RECURSIVE HexAcc(_, _, _)
HexAcc(c, i, acc) ==
    IF i > Len(c) \/ ~IsHexDigit(c[i]) THEN acc
    ELSE HexAcc(c, i+1, acc * 16 + HexDigitValue(c[i]))

RECURSIVE DecAcc(_, _, _)
DecAcc(c, i, acc) ==
    IF i > Len(c) \/ ~IsHexDigit(c[i]) \/ HexDigitValue(c[i]) > 9 THEN acc
    ELSE DecAcc(c, i+1, acc * 10 + HexDigitValue(c[i]))

\* parseInt without a radix: a "0x" prefix selects base 16, digits are read
\* up to the first character that is none
ParseInt(c) ==
    IF Len(c) >= 2 /\ c[1] = "0" /\ c[2] \in {"x", "X"}
    THEN IF Len(c) >= 3 /\ IsHexDigit(c[3]) THEN HexAcc(c, 3, 0) ELSE NotANumber
    ELSE IF Len(c) >= 1 /\ IsHexDigit(c[1]) /\ HexDigitValue(c[1]) <= 9
         THEN DecAcc(c, 1, 0) ELSE NotANumber

(***************************************************************************)
(* Inputs of the editor.                                                   *)
(***************************************************************************)
\* e.point of a click on the floor plane, as <<x, z>> in tenths
Points == {<<15, -10>>}
\* values of the colour buttons and of <input type="color">
PickerColors == {<<"#", "8", "B", "4", "5", "1", "3">>,
                 <<"#", "0", "0", "0", "0", "8", "0">>}

\* an item placed and edited in an earlier session (its id is an earlier
\* clock reading)
PriorItem ==
    [id |-> 0, type |-> "table", position |-> <<10, FixedLift, -10>>,
     rotation |-> <<0, 1, 0>>, scale |-> <<110, 110, 110>>, color |-> 9127187]

\* what the key "layout" may hold when the page opens: nothing, the empty
\* string, text that is no JSON, JSON of another shape (5, {}, [{"id":0}]),
\* or a layout saved earlier
StoredLayouts == {Stringify(Arr(<<>>)), Stringify(Arr(<<PriorItem>>))}
CorruptJson == {JsonText(JNum(5)), JsonText(JObj(<<>>)),
                JsonText(JArr(<<JObj(<<Member("id", JNum(0))>>)>>))}
InitialStores == {NoEntry, EmptyText, Garbage} \cup CorruptJson \cup StoredLayouts
\* what another page leaves under the key while this one runs
ExternalTexts == {Garbage, JsonText(JObj(<<>>)), Stringify(Arr(<<PriorItem>>))}

\* history: the items whose serialization an initial or external text is
SavedOf(text) ==
    IF text = Stringify(Arr(<<PriorItem>>)) THEN [has |-> TRUE, elems |-> <<PriorItem>>]
    ELSE IF text = Stringify(Arr(<<>>)) THEN [has |-> TRUE, elems |-> <<>>]
    ELSE [has |-> FALSE, elems |-> <<>>]

(***************************************************************************)
(* The editor's handlers.                                                  *)
(***************************************************************************)
\* the component is mounted and rendering
Live == mounted /\ ~crashed

\* placed.find(i => i.id === selectedId): the index of the first match, 0 if none
FindIndex(s, id) ==
    IF \E i \in 1..Len(s) : s[i].id = id
    THEN CHOOSE i \in 1..Len(s) : s[i].id = id /\ \A j \in 1..(i-1) : s[j].id # id
    ELSE 0

\* { ...item, ...changes }
Merge(item, changes) ==
    [k \in DOMAIN item \cup DOMAIN changes |->
        IF k \in DOMAIN changes THEN changes[k] ELSE item[k]]

\* p.map((item) => item.id === selectedId ? { ...item, ...changes } : item)
MapSelected(s, id, changes) ==
    [i \in 1..Len(s) |-> IF s[i].id = id THEN Merge(s[i], changes) ELSE s[i]]

\* p.filter((i) => i.id !== selectedId)
RECURSIVE FilterOut(_, _)
FilterOut(s, id) ==
    IF s = <<>> THEN <<>>
    ELSE IF Head(s).id # id THEN <<Head(s)>> \o FilterOut(Tail(s), id)
         ELSE FilterOut(Tail(s), id)

\* the mount effect: useEffect(() => { ... }, [])
Mount ==
    /\ ~mounted
    /\ mounted' = TRUE
    /\ placed' = IF Truthy(store) /\ Parseable(store) THEN Parse(store) ELSE placed
    /\ crashed' = ~IsLayout(placed')
    /\ UNCHANGED <<variant, selectedId, placingType, store, message, now, edits,
                   saved, sinceSave, floorVars, uploadVars, sceneVars>>

\* the clock advances
Tick ==
    /\ now < MaxClock
    /\ now' = now + 1
    /\ UNCHANGED <<variant, mounted, crashed, placed, selectedId, placingType,
                   store, message, edits, saved, sinceSave,
                   floorVars, uploadVars, sceneVars>>

\* onClick={() => setPlacingType("chair")} and its siblings
armPlacement(t) ==
    /\ Live
    /\ placingType' = t
    /\ message' = "none"
    /\ sinceSave' = "none"
    /\ UNCHANGED <<variant, mounted, crashed, placed, selectedId, store,
                   now, edits, saved, floorVars, uploadVars, sceneVars>>

\* a new item left on the floor plane
NewItem_NoLift(id, type, point) ==
    [id |-> id, type |-> type, position |-> <<point[1], 0, point[2]>>,
     rotation |-> <<0, 0, 0>>, scale |-> <<ScaleOne, ScaleOne, ScaleOne>>,
     color |-> DefaultColor]

NewItem(id, type, point) ==
    [id |-> id, type |-> type, position |-> <<point[1], FixedLift, point[2]>>,
     rotation |-> <<0, 0, 0>>, scale |-> <<ScaleOne, ScaleOne, ScaleOne>>,
     color |-> DefaultColor]

\* addFurnitureAt of SimpleEditor without setPlacingType(null)
addFurnitureAt_Sticky(point) ==
    /\ Live
    /\ Len(placed.elems) < MaxItems
    /\ sinceSave' = "none"
    /\ IF placingType = NoType
       THEN /\ message' = IF variant = "FloorEditor" THEN "select_type" ELSE "none"
            /\ UNCHANGED <<placed, selectedId, placingType>>
       ELSE /\ placed' = Arr(Append(placed.elems, NewItem(now, placingType, point)))
            /\ selectedId' = now
            /\ placingType' = placingType
            /\ message' = "none"
    /\ UNCHANGED <<variant, mounted, crashed, store, now, edits, saved,
                   floorVars, uploadVars, sceneVars>>

\* addFurnitureAt without `if (!placingType) return`
addFurnitureAt_NoGuard(point) ==
    /\ Live
    /\ Len(placed.elems) < MaxItems
    /\ sinceSave' = "none"
    /\ placed' = Arr(Append(placed.elems, NewItem(now, placingType, point)))
    /\ selectedId' = now
    /\ placingType' = IF variant = "SimpleEditor" THEN NoType ELSE placingType
    /\ message' = "none"
    /\ UNCHANGED <<variant, mounted, crashed, store, now, edits, saved,
                   floorVars, uploadVars, sceneVars>>

addFurnitureAt(point) ==
    /\ Live
    /\ Len(placed.elems) < MaxItems
    /\ sinceSave' = "none"
    /\ IF placingType = NoType
       THEN /\ message' = IF variant = "FloorEditor" THEN "select_type" ELSE "none"
            /\ UNCHANGED <<placed, selectedId, placingType>>
       ELSE /\ placed' = Arr(Append(placed.elems, NewItem(now, placingType, point)))
            /\ selectedId' = now
            /\ placingType' = IF variant = "SimpleEditor" THEN NoType ELSE placingType
            /\ message' = "none"
    /\ UNCHANGED <<variant, mounted, crashed, store, now, edits, saved,
                   floorVars, uploadVars, sceneVars>>

\* onSelect={(id) => setSelectedId(id)}, from a click on a rendered item
select(id) ==
    /\ Live
    /\ \E i \in 1..Len(placed.elems) : placed.elems[i].id = id
    /\ selectedId' = id
    /\ message' = "none"
    /\ sinceSave' = "none"
    /\ UNCHANGED <<variant, mounted, crashed, placed, placingType, store,
                   now, edits, saved, floorVars, uploadVars, sceneVars>>

\* updateSelected that also drops the selection
updateSelected_Deselects(changes) ==
    /\ placed' = Arr(MapSelected(placed.elems, selectedId, changes))
    /\ selectedId' = Null
    /\ message' = "none"
    /\ sinceSave' = "none"
    /\ edits' = edits + 1
    /\ UNCHANGED <<variant, mounted, crashed, placingType, store,
                   now, saved, floorVars, uploadVars, sceneVars>>

updateSelected(changes) ==
    /\ placed' = Arr(MapSelected(placed.elems, selectedId, changes))
    /\ message' = "none"
    /\ sinceSave' = "none"
    /\ edits' = edits + 1
    /\ UNCHANGED <<variant, mounted, crashed, selectedId, placingType, store,
                   now, saved, floorVars, uploadVars, sceneVars>>

\* `if (!item) return` of nudge, rotate and scale
NoEdit ==
    /\ message' = "none"
    /\ sinceSave' = "none"
    /\ edits' = edits + 1
    /\ UNCHANGED <<variant, mounted, crashed, placed, selectedId, placingType,
                   store, now, saved, floorVars, uploadVars, sceneVars>>

changeColor(color) ==
    /\ Live
    /\ edits < MaxEdits
    /\ updateSelected([color |-> ParseInt(ReplaceHash(color))])

nudge(axis, direction) ==
    /\ Live
    /\ edits < MaxEdits
    /\ LET i == FindIndex(placed.elems, selectedId) IN
       IF i = 0 THEN NoEdit
       ELSE LET p == placed.elems[i].position
                delta == NudgeStep * direction
                newPosition == <<IF axis = "x" THEN p[1] + delta ELSE p[1],
                                 p[2],
                                 IF axis = "z" THEN p[3] + delta ELSE p[3]>>
            IN  updateSelected([position |-> newPosition])

rotate(direction) ==
    /\ Live
    /\ edits < MaxEdits
    /\ LET i == FindIndex(placed.elems, selectedId) IN
       IF i = 0 THEN NoEdit
       ELSE LET r == placed.elems[i].rotation
            IN  updateSelected([rotation |-> <<r[1], r[2] + direction, r[3]>>])

\* scale that sets the factor as the new scale
scale_Absolute(direction) ==
    /\ Live
    /\ edits < MaxEdits
    /\ LET i == FindIndex(placed.elems, selectedId) IN
       IF i = 0 THEN NoEdit
       ELSE LET factor == IF direction > 0 THEN GrowFactor ELSE ShrinkFactor
            IN  updateSelected([scale |-> <<factor, factor, factor>>])

\* the product is taken only where it is exact in hundredths
scale(direction) ==
    /\ Live
    /\ edits < MaxEdits
    /\ LET i == FindIndex(placed.elems, selectedId) IN
       IF i = 0 THEN NoEdit
       ELSE LET factor == IF direction > 0 THEN GrowFactor ELSE ShrinkFactor
                sc == placed.elems[i].scale
            IN  /\ \A k \in 1..3 : (sc[k] * factor) % ScaleOne = 0
                /\ updateSelected([scale |-> [k \in 1..3 |-> (sc[k] * factor) \div ScaleOne]])

deleteSelected ==
    /\ Live
    /\ placed' = Arr(FilterOut(placed.elems, selectedId))
    /\ selectedId' = Null
    /\ message' = "none"
    /\ sinceSave' = "none"
    /\ UNCHANGED <<variant, mounted, crashed, placingType, store, now,
                   edits, saved, floorVars, uploadVars, sceneVars>>

\* saveLayout that keeps a value stored earlier
saveLayout_KeepsOld ==
    /\ Live
    /\ store' = IF store = NoEntry THEN Stringify(placed) ELSE store
    /\ message' = "saved"
    /\ saved' = [has |-> TRUE, elems |-> placed.elems]
    /\ sinceSave' = "saved"
    /\ UNCHANGED <<variant, mounted, crashed, placed, selectedId, placingType, now,
                   edits, floorVars, uploadVars, sceneVars>>

saveLayout ==
    /\ Live
    /\ store' = Stringify(placed)
    /\ message' = "saved"
    /\ saved' = [has |-> TRUE, elems |-> placed.elems]
    /\ sinceSave' = "saved"
    /\ UNCHANGED <<variant, mounted, crashed, placed, selectedId, placingType, now,
                   edits, floorVars, uploadVars, sceneVars>>

\* loadLayout without `if (data)`: JSON.parse(null) is null
loadLayout_NoCheck ==
    /\ Live
    /\ IF store = NoEntry
       THEN /\ placed' = NonArr("null")
            /\ message' = "loaded"
       ELSE IF Truthy(store) /\ Parseable(store)
            THEN /\ placed' = Parse(store)
                 /\ message' = "loaded"
            ELSE /\ placed' = placed
                 /\ message' = "load_failed"
    /\ crashed' = ~IsLayout(placed')
    /\ sinceSave' = "none"
    /\ UNCHANGED <<variant, mounted, selectedId, placingType, store, now, edits,
                   saved, floorVars, uploadVars, sceneVars>>

loadLayout ==
    /\ Live
    /\ IF Truthy(store)
       THEN IF Parseable(store)
            THEN /\ placed' = Parse(store)
                 /\ message' = "loaded"
            ELSE /\ placed' = placed
                 /\ message' = "load_failed"
       ELSE /\ placed' = placed
            /\ message' = "not_found"
    /\ crashed' = ~IsLayout(placed')
    /\ sinceSave' = "none"
    /\ UNCHANGED <<variant, mounted, selectedId, placingType, store, now, edits,
                   saved, floorVars, uploadVars, sceneVars>>

\* clearLayout without localStorage.removeItem("layout")
clearLayout_KeepsStore ==
    /\ Live
    /\ placed' = Arr(<<>>)
    /\ selectedId' = Null
    /\ message' = "cleared"
    /\ sinceSave' = IF sinceSave = "saved" THEN "saved_cleared" ELSE "none"
    /\ UNCHANGED <<variant, mounted, crashed, placingType, store, now, edits, saved,
                   floorVars, uploadVars, sceneVars>>

clearLayout ==
    /\ Live
    /\ placed' = Arr(<<>>)
    /\ selectedId' = Null
    /\ store' = NoEntry
    /\ message' = "cleared"
    /\ sinceSave' = IF sinceSave = "saved" THEN "saved_cleared" ELSE "none"
    /\ UNCHANGED <<variant, mounted, crashed, placingType, now, edits, saved,
                   floorVars, uploadVars, sceneVars>>

\* another page of the same origin (localStorage is shared by every page the
\* origin serves) writes or removes the entry
ExternalWrite(text) ==
    /\ mounted
    /\ store # text
    /\ store' = text
    /\ saved' = SavedOf(text)
    /\ sinceSave' = "none"
    /\ UNCHANGED <<variant, mounted, crashed, placed, selectedId, placingType,
                   message, now, edits, floorVars, uploadVars, sceneVars>>

\* the mesh the editor's specification leaves untouched
NoMesh ==
    [name |-> <<>>, geometry |-> "none", hasNormals |-> FALSE,
     size |-> <<0, 0, 0>>, centerY |-> 0]


(***************************************************************************)
(* The classifier: assignMaterial of simple-editor.jsx.  A mesh name is a  *)
(* sequence of characters; sizes and centers are in hundredths of a unit,  *)
(* so the footprint size.x * size.z is in ten-thousandths.                 *)
(***************************************************************************)
UpperLetters == <<"A", "B", "C", "D", "E", "F", "G", "H", "I", "J", "K", "L", "M", "N",
                 "O", "P", "Q", "R", "S", "T", "U", "V", "W", "X", "Y", "Z">>
LowerLetters == <<"a", "b", "c", "d", "e", "f", "g", "h", "i", "j", "k", "l", "m", "n",
                 "o", "p", "q", "r", "s", "t", "u", "v", "w", "x", "y", "z">>

\* String.prototype.toLowerCase, on the letters A-Z
LowerChar(c) ==
    IF \E i \in 1..26 : UpperLetters[i] = c
    THEN LowerLetters[CHOOSE i \in 1..26 : UpperLetters[i] = c]
    ELSE c
ToLowerCase(str) == [i \in 1..Len(str) |-> LowerChar(str[i])]

\* String.prototype.includes
Includes(str, kw) ==
    \E i \in 1..(Len(str) - Len(kw) + 1) : SubSeq(str, i, i + Len(kw) - 1) = kw

KwFloor == <<"f", "l", "o", "o", "r">>
KwGround == <<"g", "r", "o", "u", "n", "d">>
KwBase == <<"b", "a", "s", "e">>
KwPlane == <<"p", "l", "a", "n", "e">>
KwWall == <<"w", "a", "l", "l">>
KwStructure == <<"s", "t", "r", "u", "c", "t", "u", "r", "e">>
KwBuilding == <<"b", "u", "i", "l", "d", "i", "n", "g">>

\* thresholds, in hundredths (the area in ten-thousandths)
FLOOR_HEIGHT_THRESHOLD == 30
FLOOR_AREA_THRESHOLD == 20000
WALL_HEIGHT_THRESHOLD == 80
WALL_THICKNESS_THRESHOLD == 100

\* NameIsFloor with "floor" matched anywhere in the name
NameIsFloor_Includes(name) ==
    \/ Includes(name, KwFloor)
    \/ Includes(name, KwGround)
    \/ Includes(name, KwBase)
    \/ Includes(name, KwPlane)

\* name === 'floor' || name.includes('ground') || name.includes('base')
\*   || name.includes('plane')
NameIsFloor(name) ==
    \/ name = KwFloor
    \/ Includes(name, KwGround)
    \/ Includes(name, KwBase)
    \/ Includes(name, KwPlane)

\* name.includes('wall') || name.includes('structure') || name.includes('building')
NameIsWall(name) ==
    \/ Includes(name, KwWall)
    \/ Includes(name, KwStructure)
    \/ Includes(name, KwBuilding)

\* the running decision: materialType, and the rule whose console.log line
\* reported it
Undecided == [materialType |-> "neutral", rule |-> "none"]
Decided(type, rule) == [materialType |-> type, rule |-> rule]

\* NameRule with the force flag ignored
NameRule_NoForce(name, force) ==
    IF NameIsFloor(name) THEN Decided("floor", "name")
    ELSE IF NameIsWall(name) THEN Decided("wall", "name")
    ELSE Undecided

\* 0. force wall mode, 1. name-based detection
NameRule(name, force) ==
    IF force
    THEN IF NameIsFloor(name) THEN Decided("floor", "forced-name")
         ELSE Decided("wall", "forced")
    ELSE IF NameIsFloor(name) THEN Decided("floor", "name")
         ELSE IF NameIsWall(name) THEN Decided("wall", "name")
         ELSE Undecided

\* PositionRule with the lower threshold inclusive
PositionRule_Inclusive(d, centerY, force) ==
    IF ~force /\ d.materialType = "neutral"
    THEN IF centerY <= 10 THEN Decided("floor", "position")
         ELSE IF centerY > 50 THEN Decided("wall", "position")
         ELSE d
    ELSE d

\* 2. position-based detection: center.y < 0.1, center.y > 0.5
PositionRule(d, centerY, force) ==
    IF ~force /\ d.materialType = "neutral"
    THEN IF centerY < 10 THEN Decided("floor", "position")
         ELSE IF centerY > 50 THEN Decided("wall", "position")
         ELSE d
    ELSE d

\* GeometryRule with the footprint test reversed
GeometryRule_SmallFootprint(d, size, force) ==
    IF ~force /\ d.materialType = "neutral"
    THEN LET area == size[1] * size[3]
             isThinVertically == size[2] < FLOOR_HEIGHT_THRESHOLD
             hasLargeFootprint == area < FLOOR_AREA_THRESHOLD
             isTall == size[2] > WALL_HEIGHT_THRESHOLD
             isThin == size[1] < WALL_THICKNESS_THRESHOLD
                          \/ size[3] < WALL_THICKNESS_THRESHOLD
         IN  IF isThinVertically /\ hasLargeFootprint
             THEN Decided("floor", "thin-wide")
             ELSE IF isTall /\ isThin THEN Decided("wall", "tall-thin")
             ELSE IF size[2] > 50 THEN Decided("wall", "default-height")
             ELSE Decided("floor", "default-low")
    ELSE d

\* GeometryRule without the final else
GeometryRule_NoDefaultFloor(d, size, force) ==
    IF ~force /\ d.materialType = "neutral"
    THEN LET area == size[1] * size[3]
             isThinVertically == size[2] < FLOOR_HEIGHT_THRESHOLD
             hasLargeFootprint == area > FLOOR_AREA_THRESHOLD
             isTall == size[2] > WALL_HEIGHT_THRESHOLD
             isThin == size[1] < WALL_THICKNESS_THRESHOLD
                          \/ size[3] < WALL_THICKNESS_THRESHOLD
         IN  IF isThinVertically /\ hasLargeFootprint
             THEN Decided("floor", "thin-wide")
             ELSE IF isTall /\ isThin THEN Decided("wall", "tall-thin")
             ELSE IF size[2] > 50 THEN Decided("wall", "default-height")
             ELSE d
    ELSE d

\* 3. geometry-based detection; size is <<x, y, z>>
GeometryRule(d, size, force) ==
    IF ~force /\ d.materialType = "neutral"
    THEN LET area == size[1] * size[3]
             isThinVertically == size[2] < FLOOR_HEIGHT_THRESHOLD
             hasLargeFootprint == area > FLOOR_AREA_THRESHOLD
             isTall == size[2] > WALL_HEIGHT_THRESHOLD
             isThin == size[1] < WALL_THICKNESS_THRESHOLD
                          \/ size[3] < WALL_THICKNESS_THRESHOLD
         IN  IF isThinVertically /\ hasLargeFootprint
             THEN Decided("floor", "thin-wide")
             ELSE IF isTall /\ isThin THEN Decided("wall", "tall-thin")
             ELSE IF size[2] > 50 THEN Decided("wall", "default-height")
             ELSE Decided("floor", "default-low")
    ELSE d

\* the switch on materialType: the material and the shadow flags the mesh
\* gets (roughness in hundredths)
MaterialFor(materialType, wColor) ==
    IF materialType = "floor"
    THEN [material |-> "floor", color |-> "0x8B5A2B", roughness |-> 60,
          receiveShadow |-> TRUE, castShadow |-> FALSE]
    ELSE IF materialType = "wall"
    THEN [material |-> "wall", color |-> wColor, roughness |-> 20,
          receiveShadow |-> TRUE, castShadow |-> TRUE]
    ELSE [material |-> "neutral", color |-> "0xE0E0E0", roughness |-> 50,
          receiveShadow |-> TRUE, castShadow |-> TRUE]

\* assignMaterial(mesh, boundingBox, wallColor, forceWallMode): the returned
\* materialType, the rule that decided it, and what was written to the mesh
assignMaterial(m, wColor, force) ==
    LET name == ToLowerCase(m.name)
        d == GeometryRule(PositionRule(NameRule(name, force), m.centerY, force),
                          m.size, force)
    IN  [materialType |-> d.materialType, rule |-> d.rule,
         applied |-> MaterialFor(d.materialType, wColor)]

(***************************************************************************)
(* FloorGLB: the step of processScene on one mesh of the cloned scene.     *)
(***************************************************************************)
\* the material and flags a mesh of the loaded asset comes with
OriginalMaterial ==
    [material |-> "original", color |-> "original", roughness |-> 100,
     receiveShadow |-> FALSE, castShadow |-> FALSE]

\* clonedScene is null: the pass has not run for the current props
Pending ==
    [via |-> "pending", materialType |-> "none", rule |-> "none",
     normals |-> FALSE, applied |-> OriginalMaterial]

\* the body of the traverse callback for a mesh: m.geometry is "ok",
\* "disposed" (geometry.disposed is set) or "none" (the mesh has no geometry,
\* so child.geometry.computeBoundingBox() throws inside the try)
ProcessMesh(m, wColor, force) ==
    IF m.geometry = "broken"
    THEN [via |-> "threw", materialType |-> "none", rule |-> "none",
          normals |-> FALSE, applied |-> OriginalMaterial]
    ELSE IF m.geometry = "disposed"
    THEN [via |-> "skipped", materialType |-> "none", rule |-> "none",
          normals |-> TRUE, applied |-> OriginalMaterial]
    ELSE IF m.geometry = "none"
    THEN [via |-> "fallback", materialType |-> "none", rule |-> "none",
          normals |-> FALSE, applied |-> MaterialFor("neutral", wColor)]
    ELSE LET r == assignMaterial(m, wColor, force)
         IN  [via |-> "classified", materialType |-> r.materialType,
              rule |-> r.rule, normals |-> TRUE, applied |-> r.applied]

Name_Floor == <<"F", "l", "o", "o", "r">>
Name_Floor_1 == <<"F", "l", "o", "o", "r", "_", "1">>
Name_Ground == <<"G", "r", "o", "u", "n", "d">>
Name_Base == <<"B", "a", "s", "e">>
Name_Plane == <<"P", "l", "a", "n", "e">>
Name_Wall_North == <<"W", "a", "l", "l", "_", "N", "o", "r", "t", "h">>
Name_Structure == <<"S", "t", "r", "u", "c", "t", "u", "r", "e">>
Name_Building == <<"B", "u", "i", "l", "d", "i", "n", "g">>
Name_Floor_Wall == <<"F", "l", "o", "o", "r", "_", "W", "a", "l", "l">>
Name_GroundWall == <<"G", "r", "o", "u", "n", "d", "W", "a", "l", "l">>
Name_Slab == <<"S", "l", "a", "b">>
Name_Column == <<"C", "o", "l", "u", "m", "n">>

MeshNames == {Name_Floor, Name_Floor_1, Name_Ground, Name_Base, Name_Plane,
              Name_Wall_North, Name_Structure, Name_Building, Name_Floor_Wall,
              Name_GroundWall, Name_Slab, Name_Column}
SizesX == {30, 100, 800}
SizesY == {10, 30, 50, 60, 80, 90, 250}
SizesZ == {30, 200, 600}
CentersY == {-20, 5, 10, 40, 50, 51, 300}
\* values of the wall colour palette
WallColors == {"#FFFFFF", "#E0E0E0"}

\* the effect of FloorGLB: clone the scene, process the mesh, setClonedScene
processScene ==
    /\ outcome = Pending
    /\ outcome' = ProcessMesh(mesh, wallColor, forceWallMode)
    /\ UNCHANGED <<editorVars, uploadVars, sceneVars, mesh, wallColor, forceWallMode>>

\* onClick={() => setForceWallMode(!forceWallMode)}: the key of FloorGLB
\* changes, a new FloorGLB starts with clonedScene = null
toggleForceWallMode ==
    /\ forceWallMode' = ~forceWallMode
    /\ outcome' = Pending
    /\ UNCHANGED <<editorVars, uploadVars, sceneVars, mesh, wallColor>>

\* onClick={() => setWallColor(color.value)}
setWallColor(c) ==
    /\ c # wallColor
    /\ wallColor' = c
    /\ outcome' = Pending
    /\ UNCHANGED <<editorVars, uploadVars, sceneVars, mesh, forceWallMode>>


(***************************************************************************)
(* Floor replacement in the editor: handleFloorUpload, the response of the *)
(* conversion service, and resetToDefaultFloor.                            *)
(***************************************************************************)
\* "/floor.glb" as held by floorUrl; the object URL that URL.createObjectURL
\* makes for the response to the k-th request is held as k
DefaultFloor == 0

\* event.target.files[0]: no file, or a file with its size class and the
\* extension after the last dot of its lower-cased name
NoFile == [present |-> FALSE, large |-> FALSE, ext |-> "none"]
Files == [present : {TRUE}, large : BOOLEAN, ext : {"jpg", "dxf", "png"}]

\* no size check, as in index.jsx
TooLarge_NoCheck(f) == FALSE
\* file.size > MAX_FILE_SIZE, checked by SimpleEditor only
TooLarge(f) == variant = "SimpleEditor" /\ f.large
\* ['jpg', 'jpeg'].includes(fileType) || fileType === 'dxf'
Supported(f) == f.ext \in {"jpg", "jpeg", "dxf"}

\* what the conversion service answers: a 2xx response with a payload, a
\* 2xx response with a zero-byte payload, a non-2xx response whose body is
\* JSON, a non-2xx response whose body is not, or fetch rejecting
Responses == {"ok", "empty", "not_ok", "not_ok_text", "network_error"}

\* s without its i-th element
Without(s, i) == SubSeq(s, 1, i - 1) \o SubSeq(s, i + 1, Len(s))

\* <input type="file" onChange={handleFloorUpload} disabled={isLoadingFloor} />
\* without the disabled attribute
handleFloorUpload_NotDisabled(f) ==
    /\ Live
    /\ sinceSave' = "none"
    /\ IF ~f.present
       THEN /\ message' = "none"
            /\ UNCHANGED <<isLoadingFloor, awaiting, uploads>>
       ELSE IF TooLarge(f)
       THEN /\ message' = "file_too_large"
            /\ UNCHANGED <<isLoadingFloor, awaiting, uploads>>
       ELSE IF ~Supported(f)
       THEN /\ message' = "unsupported_type"
            /\ isLoadingFloor' = FALSE
            /\ UNCHANGED <<awaiting, uploads>>
       ELSE /\ uploads < MaxUploads
            /\ isLoadingFloor' = TRUE
            /\ awaiting' = Append(awaiting, uploads + 1)
            /\ uploads' = uploads + 1
            /\ message' = "none"
    /\ UNCHANGED <<variant, mounted, crashed, placed, selectedId, placingType,
                   store, now, edits, saved, floorVars, floorUrl, resetDuring,
                   file, isLoading, uploading, glbUrl, appIsLoading, error,
                   sceneVars>>

\* handleFloorUpload up to `await fetch(endpoint, ...)`, called by the file
\* input, which is disabled while isLoadingFloor
handleFloorUpload(f) ==
    /\ Live
    /\ ~isLoadingFloor
    /\ sinceSave' = "none"
    /\ IF ~f.present
       THEN /\ message' = "none"
            /\ UNCHANGED <<isLoadingFloor, awaiting, uploads>>
       ELSE IF TooLarge(f)
       THEN /\ message' = "file_too_large"
            /\ UNCHANGED <<isLoadingFloor, awaiting, uploads>>
       ELSE IF ~Supported(f)
       THEN /\ message' = "unsupported_type"
            /\ isLoadingFloor' = FALSE
            /\ UNCHANGED <<awaiting, uploads>>
       ELSE /\ uploads < MaxUploads
            /\ isLoadingFloor' = TRUE
            /\ awaiting' = Append(awaiting, uploads + 1)
            /\ uploads' = uploads + 1
            /\ message' = "none"
    /\ UNCHANGED <<variant, mounted, crashed, placed, selectedId, placingType,
                   store, now, edits, saved, floorVars, floorUrl, resetDuring,
                   file, isLoading, uploading, glbUrl, appIsLoading, error,
                   sceneVars>>

\* the end of handleFloorUpload with setIsLoadingFloor(false) on the success
\* path only, not in a finally block
floorResponse_NoFinally(kind) ==
    /\ Live
    /\ \E i \in 1..Len(awaiting) :
         /\ awaiting' = Without(awaiting, i)
         /\ IF kind \in {"ok", "empty"}
            THEN /\ floorUrl' = awaiting[i]
                 /\ placed' = Arr(<<>>)
                 /\ selectedId' = Null
                 /\ message' = "floor_loaded"
                 /\ isLoadingFloor' = FALSE
            ELSE /\ message' = "floor_failed"
                 /\ UNCHANGED <<floorUrl, placed, selectedId, isLoadingFloor>>
    /\ resetDuring' = FALSE
    /\ sinceSave' = "none"
    /\ UNCHANGED <<variant, mounted, crashed, placingType, store, now, edits,
                   saved, floorVars, uploads,
                   file, isLoading, uploading, glbUrl, appIsLoading, error,
                   sceneVars>>

\* handleFloorUpload from the return of `await fetch(...)` to its end
floorResponse(kind) ==
    /\ Live
    /\ \E i \in 1..Len(awaiting) :
         /\ awaiting' = Without(awaiting, i)
         /\ IF kind \in {"ok", "empty"}
            THEN /\ floorUrl' = awaiting[i]
                 /\ placed' = Arr(<<>>)
                 /\ selectedId' = Null
                 /\ message' = "floor_loaded"
            ELSE /\ message' = "floor_failed"
                 /\ UNCHANGED <<floorUrl, placed, selectedId>>
    /\ isLoadingFloor' = FALSE
    /\ resetDuring' = FALSE
    /\ sinceSave' = "none"
    /\ UNCHANGED <<variant, mounted, crashed, placingType, store, now, edits,
                   saved, floorVars, uploads,
                   file, isLoading, uploading, glbUrl, appIsLoading, error,
                   sceneVars>>

resetToDefaultFloor ==
    /\ Live
    /\ floorUrl' = DefaultFloor
    /\ placed' = Arr(<<>>)
    /\ selectedId' = Null
    /\ resetDuring' = (awaiting # <<>>)
    /\ message' = "none"
    /\ sinceSave' = "none"
    /\ UNCHANGED <<variant, mounted, crashed, placingType, store, now, edits,
                   saved, floorVars, isLoadingFloor, awaiting, uploads,
                   file, isLoading, uploading, glbUrl, appIsLoading, error,
                   sceneVars>>

(***************************************************************************)
(* The converter page: Uploader (components/Uploader.jsx) inside App.      *)
(***************************************************************************)
\* null, as held by App's error
NoError == "null"

\* onChange={handleFileChange} of the file input
handleFileChange(f) ==
    /\ file' = f
    /\ UNCHANGED <<editorVars, floorVars, floorUrl, isLoadingFloor, awaiting,
                   uploads, resetDuring, isLoading, uploading, glbUrl,
                   appIsLoading, error, sceneVars>>

\* handleUpload up to `await fetch(endpoint, ...)`, called by the button,
\* which is disabled while isLoading
handleUpload ==
    /\ ~isLoading
    /\ IF ~file
       THEN UNCHANGED <<isLoading, uploading, uploads, appIsLoading, error>>
       ELSE /\ uploads < MaxUploads
            /\ isLoading' = TRUE
            /\ appIsLoading' = TRUE
            /\ error' = NoError
            /\ uploading' = Append(uploading, uploads + 1)
            /\ uploads' = uploads + 1
    /\ UNCHANGED <<editorVars, floorVars, floorUrl, isLoadingFloor, awaiting,
                   resetDuring, file, glbUrl, sceneVars>>

\* handleUpload from the return of `await fetch(...)` to its end, with the
\* callbacks of App it calls (handleModelReady, handleError, handleLoadingChange)
uploadResponse(kind) ==
    /\ \E i \in 1..Len(uploading) :
         /\ uploading' = Without(uploading, i)
         /\ IF kind = "ok"
            THEN /\ glbUrl' = uploading[i]
                 /\ error' = NoError
            ELSE /\ error' = CASE kind = "empty" -> "empty_model"
                               [] kind = "not_ok" -> "server_error"
                               [] OTHER -> "network_error"
                 /\ UNCHANGED glbUrl
    /\ isLoading' = FALSE
    /\ appIsLoading' = FALSE
    /\ UNCHANGED <<editorVars, floorVars, floorUrl, isLoadingFloor, awaiting,
                   uploads, resetDuring, file, sceneVars>>

\* handleReset of App; its button is rendered when glbUrl && !isLoading && !error
handleReset ==
    /\ glbUrl # Null
    /\ ~appIsLoading
    /\ error = NoError
    /\ glbUrl' = Null
    /\ error' = NoError
    /\ appIsLoading' = FALSE
    /\ UNCHANGED <<editorVars, floorVars, floorUrl, isLoadingFloor, awaiting,
                   uploads, resetDuring, file, isLoading, uploading, sceneVars>>

\* the useState initial values of the upload state of both pages
IdleUpload ==
    /\ floorUrl = DefaultFloor
    /\ isLoadingFloor = FALSE
    /\ awaiting = <<>>
    /\ uploads = 0
    /\ resetDuring = FALSE
    /\ file = FALSE
    /\ isLoading = FALSE
    /\ uploading = <<>>
    /\ glbUrl = Null
    /\ appIsLoading = FALSE
    /\ error = NoError

(***************************************************************************)
(* FloorGLB on a whole scene.  scene.clone() copies the objects of the     *)
(* scene; a cloned mesh has material and shadow flags of its own and       *)
(* refers to the geometry of the mesh it was cloned from, so a write to    *)
(* child.material, child.receiveShadow or child.castShadow stays in the    *)
(* clone and a write to child.geometry reaches the loaded asset.           *)
(***************************************************************************)
\* the props FloorGLB is rendered with
Props(url, wColor, force) ==
    [url |-> url, wallColor |-> wColor, forceWallMode |-> force]
\* no pass has started
NoProps == Props(Null, "none", FALSE)
\* useState(null) of FloorGLB
NoClone == [from |-> NoProps, meshes |-> <<>>]

\* meshes of a loaded asset: geometry is "ok", "disposed", "none", or
\* "broken" (a geometry object without attributes, on which the normals
\* check throws)
LoadedMesh(name, geometry, hasNormals, size, centerY) ==
    [name |-> name, geometry |-> geometry, hasNormals |-> hasNormals,
     boundingBox |-> FALSE, size |-> size, centerY |-> centerY,
     applied |-> OriginalMaterial]

FloorSlab == LoadedMesh(Name_Floor, "ok", FALSE, <<800, 10, 600>>, 5)
NorthWall == LoadedMesh(Name_Wall_North, "ok", TRUE, <<800, 250, 30>>, 300)
Pillar == LoadedMesh(Name_Column, "ok", FALSE, <<30, 250, 30>>, 300)
DisposedSlab == LoadedMesh(Name_Slab, "disposed", FALSE, <<800, 10, 600>>, 5)
BareNode == LoadedMesh(Name_Plane, "none", FALSE, <<0, 0, 0>>, 0)
BrokenShell == LoadedMesh(Name_Building, "broken", FALSE, <<800, 250, 600>>, 300)

SceneMeshes == {FloorSlab, NorthWall, Pillar, DisposedSlab, BareNode, BrokenShell}
\* the scene of /floor.glb and the scenes a conversion can return
DefaultScene == <<FloorSlab, NorthWall>>
UploadedScenes == {<<a, b>> : a \in SceneMeshes, b \in SceneMeshes}

\* newClonedScene.traverse(...): the outcomes of the meshes the traverse
\* reached, in order, ending with the first one that threw, if any
RECURSIVE Traverse(_, _, _)
Traverse(ms, wColor, force) ==
    IF ms = <<>> THEN <<>>
    ELSE LET o == ProcessMesh(Head(ms), wColor, force)
         IN  IF o.via = "threw" THEN <<o>>
             ELSE <<o>> \o Traverse(Tail(ms), wColor, force)

\* an exception left the traverse callback
Threw(os) == os # <<>> /\ os[Len(os)].via = "threw"

\* what the callback leaves in the geometry of a mesh it reached:
\* computeVertexNormals() where normals were missing, computeBoundingBox()
\* where the disposed check let it through
Touched(m) ==
    IF m.geometry = "ok"
    THEN [m EXCEPT !.hasNormals = TRUE, !.boundingBox = TRUE]
    ELSE IF m.geometry = "disposed"
    THEN [m EXCEPT !.hasNormals = TRUE]
    ELSE m

\* the effect of FloorGLB, with a guard on setClonedScene
FloorGLBEffect_SetOnce ==
    /\ ~crashed
    /\ floorGLB.effect = "pending"
    /\ LET p == floorGLB.props
           ms == assets[p.url]
           os == Traverse(ms, p.wallColor, p.forceWallMode)
       IN  /\ lastStarted' = p
           /\ assets' = [assets EXCEPT ![p.url] =
                            [i \in 1..Len(ms) |->
                                IF i <= Len(os) THEN Touched(ms[i]) ELSE ms[i]]]
           /\ floorGLB' =
                IF Threw(os) THEN [floorGLB EXCEPT !.effect = "threw"]
                ELSE IF floorGLB.clonedScene # NoClone
                THEN [floorGLB EXCEPT !.effect = "done"]
                ELSE [floorGLB EXCEPT !.clonedScene = [from |-> p, meshes |-> os],
                                      !.effect = "done"]
           /\ crashed' = Threw(os)
    /\ UNCHANGED <<variant, mounted, placed, selectedId, placingType, store,
                   message, now, edits, saved, sinceSave, floorVars, uploadVars,
                   loaded>>

\* the effect of FloorGLB: useEffect(() => { ... processScene() },
\* [scene, wallColor, forceWallMode]).  The pass runs to its end in one turn of
\* the event loop; an exception that leaves it leaves the effect, and React
\* unmounts the tree
FloorGLBEffect ==
    /\ ~crashed
    /\ floorGLB.effect = "pending"
    /\ LET p == floorGLB.props
           ms == assets[p.url]
           os == Traverse(ms, p.wallColor, p.forceWallMode)
       IN  /\ lastStarted' = p
           /\ assets' = [assets EXCEPT ![p.url] =
                            [i \in 1..Len(ms) |->
                                IF i <= Len(os) THEN Touched(ms[i]) ELSE ms[i]]]
           /\ floorGLB' =
                IF Threw(os) THEN [floorGLB EXCEPT !.effect = "threw"]
                ELSE [floorGLB EXCEPT !.clonedScene = [from |-> p, meshes |-> os],
                                      !.effect = "done"]
           /\ crashed' = Threw(os)
    /\ UNCHANGED <<variant, mounted, placed, selectedId, placingType, store,
                   message, now, edits, saved, sinceSave, floorVars, uploadVars,
                   loaded>>

\* SimpleEditor renders <FloorGLB key={`floor-${wallColor}-${forceWallMode}`}
\* url={floorUrl} ... /> after a change of its state: a new key mounts a new
\* instance, a new url re-renders the mounted one.  React runs the effects of
\* a commit before it renders again.
renderFloorGLB ==
    /\ ~crashed
    /\ floorGLB.effect = "done"
    /\ LET p == Props(floorUrl, wallColor, forceWallMode)
       IN  /\ floorGLB.props # p
           /\ floorGLB' =
                IF p.wallColor # floorGLB.props.wallColor
                   \/ p.forceWallMode # floorGLB.props.forceWallMode
                THEN [props |-> p, clonedScene |-> NoClone, effect |-> "pending"]
                ELSE [floorGLB EXCEPT !.props = p, !.effect = "pending"]
    /\ UNCHANGED <<editorVars, floorVars, uploadVars, assets, loaded, lastStarted>>

\* FloorGLB as first rendered by the editor, over the asset of /floor.glb
IdleScene ==
    /\ assets = [u \in 0..MaxUploads |-> DefaultScene]
    /\ loaded = assets
    /\ floorGLB = [props |-> Props(DefaultFloor, "#FFFFFF", FALSE),
                   clonedScene |-> NoClone, effect |-> "pending"]
    /\ lastStarted = NoProps


(***************************************************************************)
(* The specifications.                                                     *)
(***************************************************************************)
\* the placement editor
Init ==
    /\ variant \in {"SimpleEditor", "FloorEditor"}
    /\ mounted = FALSE
    /\ crashed = FALSE
    /\ placed = Arr(<<>>)
    /\ selectedId = Null
    /\ placingType = NoType
    /\ store \in InitialStores
    /\ message = "none"
    /\ now = 1
    /\ edits = 0
    /\ saved = SavedOf(store)
    /\ sinceSave = "none"
    /\ mesh = NoMesh
    /\ wallColor = "#FFFFFF"
    /\ forceWallMode = FALSE
    /\ outcome = [via |-> "pending", materialType |-> "none", rule |-> "none",
                  normals |-> FALSE,
                  applied |-> [material |-> "original", color |-> "original",
                               roughness |-> 100, receiveShadow |-> FALSE,
                               castShadow |-> FALSE]]
    /\ IdleUpload
    /\ IdleScene

Next ==
    \/ Mount
    \/ Tick
    \/ \E t \in ItemTypes : armPlacement(t)
    \/ \E point \in Points : addFurnitureAt(point)
    \/ \E id \in 0..MaxClock : select(id)
    \/ \E c \in PickerColors : changeColor(c)
    \/ \E axis \in {"x", "z"}, d \in {-1, 1} : nudge(axis, d)
    \/ \E d \in {-1, 1} : rotate(d)
    \/ \E d \in {-1, 1} : scale(d)
    \/ deleteSelected
    \/ saveLayout
    \/ loadLayout
    \/ clearLayout
    \/ resetToDefaultFloor
    \/ \E text \in ExternalTexts : ExternalWrite(text)

Spec == Init /\ [][Next]_vars

\* the classifier on one mesh
InitClassify ==
    /\ variant = "SimpleEditor"
    /\ mounted = FALSE
    /\ crashed = FALSE
    /\ placed = Arr(<<>>)
    /\ selectedId = Null
    /\ placingType = NoType
    /\ store = NoEntry
    /\ message = "none"
    /\ now = 1
    /\ edits = 0
    /\ saved = SavedOf(NoEntry)
    /\ sinceSave = "none"
    /\ mesh \in [name : MeshNames, geometry : {"ok", "disposed", "none"},
                 hasNormals : BOOLEAN, size : SizesX \X SizesY \X SizesZ,
                 centerY : CentersY]
    /\ wallColor = "#FFFFFF"
    /\ forceWallMode = FALSE
    /\ outcome = Pending
    /\ IdleUpload
    /\ IdleScene

NextClassify ==
    \/ processScene
    \/ toggleForceWallMode
    \/ \E c \in WallColors : setWallColor(c)

SpecClassify == InitClassify /\ [][NextClassify]_vars

\* placement and floor replacement in the editor, and the converter page.
\* The page that runs is the editor (either variant) or App; the editor has
\* its placement handlers, so that a response finds a layout to keep or to
\* clear, and opens on an empty store or on a layout saved earlier.
EditorPage == variant \in {"SimpleEditor", "FloorEditor"}
\* a file the editor accepts
PlanFile == [present |-> TRUE, large |-> FALSE, ext |-> "jpg"]

InitUpload ==
    /\ variant \in {"SimpleEditor", "FloorEditor", "App"}
    /\ mounted = FALSE
    /\ crashed = FALSE
    /\ placed = Arr(<<>>)
    /\ selectedId = Null
    /\ placingType = NoType
    /\ store \in IF variant = "App" THEN {NoEntry} ELSE {NoEntry} \cup StoredLayouts
    /\ message = "none"
    /\ now = 1
    /\ edits = 0
    /\ saved = SavedOf(store)
    /\ sinceSave = "none"
    /\ mesh = NoMesh
    /\ wallColor = "#FFFFFF"
    /\ forceWallMode = FALSE
    /\ outcome = Pending
    /\ IdleUpload
    /\ IdleScene

NextUpload ==
    \/ EditorPage /\ Mount
    \/ EditorPage /\ Tick
    \/ EditorPage /\ \E t \in ItemTypes : armPlacement(t)
    \/ EditorPage /\ \E point \in Points : addFurnitureAt(point)
    \/ EditorPage /\ \E id \in 0..MaxClock : select(id)
    \/ EditorPage /\ deleteSelected
    \/ EditorPage /\ \E f \in Files \cup {NoFile} : handleFloorUpload(f)
    \/ EditorPage /\ \E kind \in Responses : floorResponse(kind)
    \/ EditorPage /\ resetToDefaultFloor
    \/ ~EditorPage /\ \E f \in BOOLEAN : handleFileChange(f)
    \/ ~EditorPage /\ handleUpload
    \/ ~EditorPage /\ \E kind \in Responses : uploadResponse(kind)
    \/ ~EditorPage /\ handleReset

SpecUpload == InitUpload /\ [][NextUpload]_vars

\* the answer to a request arrives: fetch settles, the service answers or
\* the request fails
SpecUploadFair ==
    /\ SpecUpload
    /\ WF_vars(EditorPage /\ \E kind \in Responses : floorResponse(kind))
    /\ WF_vars(~EditorPage /\ \E kind \in Responses : uploadResponse(kind))

\* the editor with its persistence handlers and without its edit handlers
NextPersist ==
    \/ Mount
    \/ Tick
    \/ \E t \in ItemTypes : armPlacement(t)
    \/ \E point \in Points : addFurnitureAt(point)
    \/ \E id \in 0..MaxClock : select(id)
    \/ deleteSelected
    \/ saveLayout
    \/ loadLayout
    \/ clearLayout
    \/ resetToDefaultFloor
    \/ \E text \in ExternalTexts : ExternalWrite(text)

SpecPersist == Init /\ [][NextPersist]_vars

\* placing, selecting and editing: the editor with its edit handlers and
\* without its persistence handlers, opened on an empty store or on a layout
\* saved earlier
InitEdit ==
    /\ variant \in {"SimpleEditor", "FloorEditor"}
    /\ mounted = FALSE
    /\ crashed = FALSE
    /\ placed = Arr(<<>>)
    /\ selectedId = Null
    /\ placingType = NoType
    /\ store \in {NoEntry, Stringify(Arr(<<PriorItem>>))}
    /\ message = "none"
    /\ now = 1
    /\ edits = 0
    /\ saved = SavedOf(store)
    /\ sinceSave = "none"
    /\ mesh = NoMesh
    /\ wallColor = "#FFFFFF"
    /\ forceWallMode = FALSE
    /\ outcome = Pending
    /\ IdleUpload
    /\ IdleScene

NextEdit ==
    \/ Mount
    \/ Tick
    \/ \E t \in ItemTypes : armPlacement(t)
    \/ \E point \in Points : addFurnitureAt(point)
    \/ \E id \in 0..MaxClock : select(id)
    \/ \E c \in PickerColors : changeColor(c)
    \/ \E axis \in {"x", "z"}, d \in {-1, 1} : nudge(axis, d)
    \/ \E d \in {-1, 1} : rotate(d)
    \/ \E d \in {-1, 1} : scale(d)

SpecEdit == InitEdit /\ [][NextEdit]_vars

\* FloorGLB over whole scenes: the asset of /floor.glb and an uploaded one
InitScene ==
    /\ variant = "SimpleEditor"
    /\ mounted = TRUE
    /\ crashed = FALSE
    /\ placed = Arr(<<>>)
    /\ selectedId = Null
    /\ placingType = NoType
    /\ store = NoEntry
    /\ message = "none"
    /\ now = 1
    /\ edits = 0
    /\ saved = SavedOf(NoEntry)
    /\ sinceSave = "none"
    /\ mesh = NoMesh
    /\ wallColor = "#FFFFFF"
    /\ forceWallMode = FALSE
    /\ outcome = Pending
    /\ IdleUpload
    /\ \E s \in UploadedScenes :
         assets = [u \in 0..MaxUploads |-> IF u = DefaultFloor THEN DefaultScene ELSE s]
    /\ loaded = assets
    /\ floorGLB = [props |-> Props(DefaultFloor, "#FFFFFF", FALSE),
                   clonedScene |-> NoClone, effect |-> "pending"]
    /\ lastStarted = NoProps

NextScene ==
    \/ FloorGLBEffect
    \/ renderFloorGLB
    \/ toggleForceWallMode
    \/ \E c \in WallColors : setWallColor(c)
    \/ handleFloorUpload(PlanFile)
    \/ floorResponse("ok")
    \/ resetToDefaultFloor

SpecScene == InitScene /\ [][NextScene]_vars

(***************************************************************************)
(* Claims about the placement editor.                                      *)
(***************************************************************************)

\* a stored text is a serialized array of complete PlacedItem records
IsLayoutText(text) ==
    /\ text.kind = "json"
    /\ text.doc.j = "array"
    /\ \A i \in 1..Len(text.doc.elems) :
          /\ text.doc.elems[i].j = "object"
          /\ {text.doc.elems[i].members[k].key :
                 k \in 1..Len(text.doc.elems[i].members)} = ItemFields
          /\ Len(text.doc.elems[i].members) = Cardinality(ItemFields)

\* C1, as stated: saveLayout(), then clearLayout(), then loadLayout() leaves
\* `placed` equal to the exact sequence that was saved.
C1_SaveClearLoadRestores ==
    [][(sinceSave = "saved_cleared" /\ loadLayout)
          => placed' = Arr(saved.elems)]_vars

\* C1, amended: a loadLayout() that finds the text written by saveLayout()
\* makes `placed` the exact sequence that was saved (same ids, types,
\* positions, rotations, scales and colors, in the same order), whatever
\* `placed` held in between; clearLayout() removes the text, so saveLayout(),
\* clearLayout(), loadLayout() leaves `placed` empty and reports that nothing
\* is stored.
C1_RoundTrip ==
    [][loadLayout =>
          /\ (Truthy(store) /\ saved.has
                => placed' = Arr(saved.elems) /\ message' = "loaded")
          /\ (sinceSave = "saved_cleared"
                => placed' = Arr(<<>>) /\ message' = "not_found")]_vars

\* C1, witness: a load has just restored two saved items, one of them edited
C1_Witness ==
    /\ message = "loaded"
    /\ saved.has
    /\ Len(saved.elems) = 2
    /\ placed = Arr(saved.elems)
    /\ \E i \in 1..2 : placed.elems[i].rotation # <<0, 0, 0>>
    /\ placed.elems[1].type # placed.elems[2].type

\* C2: no two entries of `placed` have the same id.
C2_UniqueIds ==
    (Live /\ IsLayout(placed)) =>
        \A i, j \in 1..Len(placed.elems) :
            i # j => placed.elems[i].id # placed.elems[j].id

\* C3: whenever loadLayout() successfully replaces the items, selectedId
\* becomes null.
C3_LoadClearsSelection ==
    [][(loadLayout /\ Truthy(store) /\ Parseable(store))
          => selectedId' = Null]_vars

\* C4: for every stored value that is not a serialized array of PlacedItem
\* records, loadLayout() leaves `placed` and selectedId unchanged and signals
\* a decode failure.
C4_NoCorruptLoad ==
    [][(loadLayout /\ Truthy(store) /\ ~IsLayoutText(store))
          => /\ placed' = placed
             /\ selectedId' = selectedId
             /\ message' = "load_failed"]_vars

\* the sequence without its i-th entry
RemoveAt(s, i) == SubSeq(s, 1, i-1) \o SubSeq(s, i+1, Len(s))

\* C5: deleteSelected(), when an item is selected, sets selectedId to null
\* and removes exactly one entry (the selected one), leaving the others and
\* their order unchanged; when nothing is selected it changes neither
\* `placed` nor selectedId.
C5_DeleteSelected ==
    [][deleteSelected =>
          IF FindIndex(placed.elems, selectedId) # 0
          THEN /\ selectedId' = Null
               /\ placed' = Arr(RemoveAt(placed.elems,
                                         FindIndex(placed.elems, selectedId)))
          ELSE selectedId = Null
                 => placed' = placed /\ selectedId' = selectedId]_vars

(***************************************************************************)
(* Claims about the classifier.                                            *)
(***************************************************************************)

\* the lower-cased name of the mesh under classification
LowerName == ToLowerCase(mesh.name)

\* the mesh went through assignMaterial
Classified == outcome.via = "classified"

ContainsGroundBasePlane(n) ==
    Includes(n, KwGround) \/ Includes(n, KwBase) \/ Includes(n, KwPlane)
ContainsWallWord(n) ==
    Includes(n, KwWall) \/ Includes(n, KwStructure) \/ Includes(n, KwBuilding)

\* C6, as stated: with forceWallMode = false, a name that contains "floor",
\* "ground", "base" or "plane" gives Floor, and any other name that contains
\* "wall", "structure" or "building" gives Wall, for every size and center.
C6_NameContains ==
    (Classified /\ ~forceWallMode) =>
        IF Includes(LowerName, KwFloor) \/ ContainsGroundBasePlane(LowerName)
        THEN outcome.materialType = "floor"
        ELSE ContainsWallWord(LowerName) => outcome.materialType = "wall"

\* C6, amended: with forceWallMode = false, a name that equals "floor" or
\* contains "ground", "base" or "plane" gives Floor, and any other name that
\* contains "wall", "structure" or "building" gives Wall, for every size and
\* center.
C6_NameRule ==
    (Classified /\ ~forceWallMode) =>
        IF LowerName = KwFloor \/ ContainsGroundBasePlane(LowerName)
        THEN outcome.materialType = "floor" /\ outcome.rule = "name"
        ELSE ContainsWallWord(LowerName)
                => outcome.materialType = "wall" /\ outcome.rule = "name"

\* C6, witness: "Floor", tall and centered high, is Floor by its name
C6_Witness ==
    /\ Classified /\ ~forceWallMode
    /\ mesh.name = Name_Floor
    /\ mesh.centerY = 300 /\ mesh.size[2] = 250
    /\ outcome.materialType = "floor"

\* C7: with forceWallMode = true, a fragment is Floor exactly when its name
\* equals "floor" or contains "ground", "base" or "plane", and Wall otherwise,
\* for every size and center.
C7_ForceWall ==
    (Classified /\ forceWallMode) =>
        /\ outcome.materialType = "floor"
              <=> (LowerName = KwFloor \/ ContainsGroundBasePlane(LowerName))
        /\ outcome.materialType # "floor" => outcome.materialType = "wall"

\* C7, witness: a thin, wide slab lying on the ground is Wall in force mode
C7_Witness ==
    /\ Classified /\ forceWallMode
    /\ mesh.name = Name_Slab
    /\ mesh.size = <<800, 10, 600>> /\ mesh.centerY = 5
    /\ outcome.materialType = "wall"

\* the rule chain of C8, on a size <<x, y, z>> and a vertical center
ReferenceChain(size, centerY) ==
    IF centerY < 10 THEN "floor"
    ELSE IF centerY > 50 THEN "wall"
    ELSE IF size[2] < 30 /\ size[1] * size[3] > 20000 THEN "floor"
    ELSE IF size[2] > 80 /\ (size[1] < 100 \/ size[3] < 100) THEN "wall"
    ELSE IF size[2] > 50 THEN "wall"
    ELSE "floor"

\* C8: with forceWallMode = false and a name that contains no keyword, the
\* category equals the reference rule chain, for every size and center.
C8_GeometryChain ==
    (/\ Classified /\ ~forceWallMode
     /\ ~Includes(LowerName, KwFloor)
     /\ ~ContainsGroundBasePlane(LowerName)
     /\ ~ContainsWallWord(LowerName))
        => outcome.materialType = ReferenceChain(mesh.size, mesh.centerY)

\* C8, witness: the 0.3 cube "Column" centered at 0.4 is Floor
C8_Witness ==
    /\ Classified /\ ~forceWallMode
    /\ mesh.name = Name_Column
    /\ mesh.size = <<30, 30, 30>> /\ mesh.centerY = 40
    /\ outcome.materialType = "floor"

\* the mesh is the fragment "Slab" of size (8.0, 0.1, 6.0), classified with
\* forceWallMode = false
IsSlab ==
    /\ Classified /\ ~forceWallMode
    /\ mesh.name = Name_Slab
    /\ mesh.size = <<800, 10, 600>>

\* C9, as stated: "Slab" is Floor through the thin-and-wide branch of the
\* geometry rule, wherever its vertical center lies.
C9_SlabAnywhere ==
    IsSlab => outcome.materialType = "floor" /\ outcome.rule = "thin-wide"

\* C9, amended: "Slab" is Floor through the thin-and-wide branch when its
\* vertical center lies in [0.1, 0.5]; below 0.1 it is Floor by the position
\* rule, above 0.5 it is Wall by the position rule.
C9_Slab ==
    IsSlab =>
        /\ (mesh.centerY >= 10 /\ mesh.centerY <= 50)
              => outcome.materialType = "floor" /\ outcome.rule = "thin-wide"
        /\ mesh.centerY < 10
              => outcome.materialType = "floor" /\ outcome.rule = "position"
        /\ mesh.centerY > 50
              => outcome.materialType = "wall" /\ outcome.rule = "position"

\* C9, witness: "Slab" centered at 0.4 went through the thin-and-wide branch
C9_Witness ==
    IsSlab /\ mesh.centerY = 40 /\ outcome.rule = "thin-wide"

\* C10: assignMaterial returns 'floor' or 'wall', never 'neutral', for every
\* name, size, center and mode; a mesh carries the Neutral material only
\* through the error fallback of the scene pass.
C10_NeverNeutral ==
    /\ Classified => outcome.materialType \in {"floor", "wall"}
    /\ Classified => outcome.applied.material = outcome.materialType
    /\ outcome.applied.material = "neutral" => outcome.via = "fallback"

\* C10, witness: a mesh on both boundaries (center 0.5, height 0.5) fell
\* through to the last else of the geometry rule
C10_Witness ==
    /\ Classified /\ ~forceWallMode
    /\ mesh.name = Name_Column
    /\ mesh.centerY = 50 /\ mesh.size[2] = 50
    /\ outcome.rule = "default-low"

(***************************************************************************)
(* Claims about FloorGLB's pass over a scene.                              *)
(***************************************************************************)

\* the Neutral material with its shadow flags
Neutral == MaterialFor("neutral", "#FFFFFF")
\* the meshes of the asset the installed clone was made from
CloneSource == assets[floorGLB.clonedScene.from.url]

\* C11: in the scene pass every mesh whose geometry is flagged disposed is
\* skipped by the classifier and ends the pass carrying the Neutral material
\* (light gray, roughness 0.5, casts and receives shadow), not its original.
C11_DisposedNeutral ==
    \A i \in 1..Len(floorGLB.clonedScene.meshes) :
        CloneSource[i].geometry = "disposed"
            => /\ floorGLB.clonedScene.meshes[i].via = "skipped"
               /\ floorGLB.clonedScene.meshes[i].applied = Neutral

\* C12: if processing one mesh fails at any step of the pass (normals,
\* bounding box, material assignment), that mesh gets the Neutral material,
\* every other mesh is still classified, and the pass completes and installs
\* the cloned scene.
C12_PerFragmentRecovery ==
    [][FloorGLBEffect =>
          LET ms == assets[floorGLB.props.url]
              c == floorGLB'.clonedScene
          IN  /\ floorGLB'.effect = "done"
              /\ c.from = floorGLB.props
              /\ Len(c.meshes) = Len(ms)
              /\ \A i \in 1..Len(ms) :
                    /\ ms[i].geometry \in {"none", "broken"}
                          => c.meshes[i].applied = Neutral
                    /\ ms[i].geometry = "ok"
                          => c.meshes[i].via = "classified"]_vars

\* C13: after any sequence of passes triggered by asset, wall-colour or
\* force-mode changes, the loaded assets are as they were loaded (materials,
\* shadow flags and geometry data): every write of a pass goes to its clone.
C13_AssetsUntouched == assets = loaded

\* C16: the render object shown for the floor always results from the most
\* recently started pass: the output of a pass for an older (asset,
\* wallColor, forceWallMode) is never installed after a newer pass started.
C16_LatestPassShown ==
    (~crashed /\ floorGLB.clonedScene # NoClone)
        => floorGLB.clonedScene.from = lastStarted

\* the mounted instance was re-rendered with a new asset and a changed wall
\* colour and force mode, and shows the result of the pass for them
C16_Witness ==
    /\ ~crashed
    /\ floorGLB.effect = "done"
    /\ floorGLB.clonedScene.from = Props(floorUrl, wallColor, forceWallMode)
    /\ floorUrl # DefaultFloor
    /\ wallColor # "#FFFFFF"
    /\ forceWallMode
    /\ uploads > 1

(***************************************************************************)
(* Claims about floor replacement and the converter page.                  *)
(***************************************************************************)

\* the conversions that failed: every answer but a 2xx response with a payload
FailedConversions == Responses \ {"ok"}

\* C14: in both upload paths, for every failed conversion (non-2xx response,
\* network error, or a 2xx response with a zero-byte payload) the loaded
\* asset reference (floorUrl / glbUrl) and the layout (placed, selectedId)
\* are the same after the attempt as before, and a failure is reported.
C14_FailuresKeepState ==
    [][/\ (\E kind \in FailedConversions : floorResponse(kind))
            => /\ floorUrl' = floorUrl
               /\ placed' = placed
               /\ selectedId' = selectedId
               /\ message' = "floor_failed"
       /\ (\E kind \in FailedConversions : uploadResponse(kind))
            => /\ glbUrl' = glbUrl
               /\ error' # NoError]_vars

\* C15: at most one conversion request is outstanding at any moment; while
\* the busy flag (isLoadingFloor / isLoading) is true no request is issued;
\* an upload attempt issues at most one request and a response ends one call.
C15_OneConversionAtATime ==
    [][/\ Len(awaiting') <= 1
       /\ Len(uploading') <= 1
       /\ isLoadingFloor => Len(awaiting') <= Len(awaiting)
       /\ isLoading => Len(uploading') <= Len(uploading)
       /\ uploads' <= uploads + 1
       /\ Len(awaiting') >= Len(awaiting) - 1
       /\ Len(uploading') >= Len(uploading) - 1]_vars

\* a second request is outstanding after the first was answered
C15_Witness ==
    /\ uploads > 1
    /\ \/ Len(awaiting) = 1 /\ isLoadingFloor
       \/ Len(uploading) = 1 /\ isLoading

(***************************************************************************)
(* Claims about placing and editing.                                       *)
(***************************************************************************)

\* C17: with a type armed, addFurnitureAt(point) appends exactly one item at
\* the end of placed, with type = the armed type, position = (point.x, 0.5,
\* point.z), rotation (0,0,0), scale (1,1,1) and colour 0xF5F5F5, leaves the
\* existing items unchanged and sets selectedId to the new item's id.
C17_PlaceAt ==
    [][\A point \in Points :
          (addFurnitureAt(point) /\ placingType # NoType) =>
              LET n == Len(placed.elems)
                  item == placed'.elems[n + 1]
              IN  /\ Len(placed'.elems) = n + 1
                  /\ SubSeq(placed'.elems, 1, n) = placed.elems
                  /\ item.type = placingType
                  /\ item.position = <<point[1], FixedLift, point[2]>>
                  /\ item.rotation = <<0, 0, 0>>
                  /\ item.scale = <<ScaleOne, ScaleOne, ScaleOne>>
                  /\ item.color = DefaultColor
                  /\ selectedId' = item.id]_vars

\* a chair was placed after an existing table and is the selected item
C17_Witness ==
    /\ Live
    /\ Len(placed.elems) = 2
    /\ placed.elems[1].type = "table"
    /\ placed.elems[2].type = "chair"
    /\ placed.elems[2].position[2] = FixedLift
    /\ selectedId = placed.elems[2].id
    /\ placed.elems[1].id # placed.elems[2].id

\* C18: with placingType null, addFurnitureAt(point) leaves placed,
\* selectedId, placingType and the stored layout unchanged, for every point.
C18_PlaceUnarmed ==
    [][\A point \in Points :
          (addFurnitureAt(point) /\ placingType = NoType) =>
              UNCHANGED <<placed, selectedId, placingType, store>>]_vars

\* the floor was clicked with no type armed, over a layout that holds items
C18_Witness ==
    /\ Live
    /\ message = "select_type"
    /\ placingType = NoType
    /\ Len(placed.elems) > 0

\* a step of one of the handlers that call updateSelected
EditStep ==
    \/ \E c \in PickerColors : changeColor(c)
    \/ \E axis \in {"x", "z"}, d \in {-1, 1} : nudge(axis, d)
    \/ \E d \in {-1, 1} : rotate(d)
    \/ \E d \in {-1, 1} : scale(d)

\* C19: updateSelected(changes) changes no item when nothing is selected;
\* otherwise it merges the fields into the one selected item only: every
\* other item, the number of items and their order are unchanged.
C19_UpdateOnlySelected ==
    [][EditStep =>
          /\ Len(placed'.elems) = Len(placed.elems)
          /\ selectedId = Null => placed' = placed
          /\ Cardinality({i \in 1..Len(placed.elems) :
                             placed'.elems[i] # placed.elems[i]}) <= 1
          /\ \A i \in 1..Len(placed.elems) :
                placed.elems[i].id # selectedId
                    => placed'.elems[i] = placed.elems[i]]_vars

\* C20: nudge, rotate, scale, changeColor/updateSelected, saveLayout and
\* arming a placement type leave selectedId as it was; selectedId changes
\* only by a placement, a select, a delete, a clear or a floor reset.
C20_EditsKeepSelection ==
    [][/\ (EditStep \/ saveLayout \/ \E t \in ItemTypes : armPlacement(t))
            => selectedId' = selectedId
       /\ selectedId' # selectedId
            => \/ \E point \in Points : addFurnitureAt(point)
               \/ \E id \in 0..MaxClock : select(id)
               \/ deleteSelected
               \/ clearLayout
               \/ resetToDefaultFloor]_vars

\* an item placed in this session was nudged and is still the selected one
C20_Witness ==
    /\ Live
    /\ edits > 0
    /\ selectedId # Null
    /\ \E i \in 1..Len(placed.elems) :
          /\ placed.elems[i].id = selectedId
          /\ placed.elems[i].id # PriorItem.id
          /\ placed.elems[i].position[1] # 15

\* the index in placed of the item the edit handlers read, 0 if there is none
SelectedIndex == FindIndex(placed.elems, selectedId)

C22_NudgeInvertible ==
    [][\A axis \in {"x", "z"}, d \in {-1, 1} :
          (nudge(axis, d) /\ SelectedIndex # 0) =>
              LET i == SelectedIndex
                  p == placed.elems[i].position
                  q == placed'.elems[i].position
                  k == IF axis = "x" THEN 1 ELSE 3
              IN  /\ q[k] = p[k] + 2 * d
                  /\ q[k] - 2 * d = p[k]
                  /\ \A m \in (1..3) \ {k} : q[m] = p[m]
                  /\ Len(placed'.elems) = Len(placed.elems)
                  /\ \A j \in (1..Len(placed.elems)) \ {i} :
                        placed'.elems[j] = placed.elems[j]]_vars

\* C23: clearLayout() leaves placed empty and selectedId null and removes
\* the stored key; a loadLayout() that follows it, with the key still
\* absent, reports that nothing is stored and keeps placed empty.
C23_ClearRemoves ==
    [][/\ clearLayout =>
            /\ placed' = Arr(<<>>)
            /\ selectedId' = Null
            /\ store' = NoEntry
       /\ (loadLayout /\ message = "cleared" /\ store = NoEntry) =>
            /\ message' = "not_found"
            /\ placed' = Arr(<<>>)
            /\ selectedId' = Null]_vars

\* a layout had been stored, clearLayout removed it and the loadLayout that
\* followed found nothing
C23_Witness ==
    /\ Live
    /\ saved.has
    /\ saved.elems # <<>>
    /\ store = NoEntry
    /\ message = "not_found"
    /\ placed = Arr(<<>>)
    /\ selectedId = Null

\* C24: saveLayout() replaces whatever the key held by a serialization of
\* exactly the current placed (an array of its item records and nothing
\* else, which decodes back to placed) and leaves placed, selectedId and
\* placingType unchanged; of the editor's handlers only saveLayout and
\* clearLayout change what is stored (another page may write the key).
C24_SaveWritesPlaced ==
    [][/\ saveLayout =>
            /\ IsLayoutText(store')
            /\ Parse(store') = placed
            /\ UNCHANGED <<placed, selectedId, placingType>>
       /\ store' # store =>
            \/ saveLayout
            \/ clearLayout
            \/ \E text \in ExternalTexts : ExternalWrite(text)]_vars

\* a layout of two items was saved over a different stored value, with an
\* item selected and a type armed: the selection and the armed type are in
\* the component and not in the stored text
C24_Witness ==
    /\ Live
    /\ message = "saved"
    /\ Len(placed.elems) = 2
    /\ selectedId # Null
    /\ placingType # NoType
    /\ store = Stringify(placed)
    /\ store \notin InitialStores

\* C25: loadLayout() with the key absent leaves placed and selectedId
\* unchanged and reports that nothing was found; that report is given only
\* when nothing is stored, a stored text that does not decode is reported as
\* a failure and success is reported only for a stored text that decodes.
C25_LoadAbsent ==
    [][loadLayout =>
          /\ store = NoEntry =>
                /\ UNCHANGED <<placed, selectedId>>
                /\ message' = "not_found"
          /\ message' = "not_found" => ~Truthy(store)
          /\ (Truthy(store) /\ ~Parseable(store)) =>
                /\ message' = "load_failed"
                /\ UNCHANGED <<placed, selectedId>>
          /\ message' = "loaded" => (Truthy(store) /\ Parseable(store))]_vars

\* loadLayout found no key while items were placed and one was selected
C25_Witness ==
    /\ Live
    /\ store = NoEntry
    /\ message = "not_found"
    /\ Len(placed.elems) > 0
    /\ selectedId # Null

\* the files SimpleEditor's handleFloorUpload rejects before any request:
\* no file chosen, a file over the size limit, an unsupported extension
RejectedFiles == {NoFile} \cup {f \in Files : f.large \/ f.ext \notin {"jpg", "dxf"}}

\* C26: in SimpleEditor, handleFloorUpload on a missing file, a file over
\* 100 MB or an unsupported extension issues no conversion request, leaves
\* floorUrl, placed and selectedId unchanged and returns with the busy flag
\* false.
C26_InputErrorsSendNothing ==
    [][\A f \in RejectedFiles :
          (variant = "SimpleEditor" /\ handleFloorUpload(f)) =>
              /\ UNCHANGED <<awaiting, uploads, floorUrl, placed, selectedId>>
              /\ ~isLoadingFloor']_vars

\* SimpleEditor refused a file as too large or of an unsupported type while
\* the layout held a selected item, and no request is outstanding
C26_Witness ==
    /\ Live
    /\ variant = "SimpleEditor"
    /\ message \in {"file_too_large", "unsupported_type"}
    /\ Len(placed.elems) > 0
    /\ selectedId # Null
    /\ awaiting = <<>>
    /\ uploads = 0
    /\ floorUrl = DefaultFloor
    /\ ~isLoadingFloor

\* C27: in SimpleEditor every addFurnitureAt leaves placingType null, an
\* unarmed addFurnitureAt places nothing and only arming a type makes
\* placingType non-null, so at most one item is placed between two arming
\* actions; FloorEditor's addFurnitureAt keeps the type armed.
C27_SingleShot ==
    [][/\ \A point \in Points :
            addFurnitureAt(point) =>
                /\ variant = "SimpleEditor" =>
                      /\ placingType' = NoType
                      /\ placingType = NoType => placed' = placed
                      /\ Len(placed'.elems) <= Len(placed.elems) + 1
                /\ variant = "FloorEditor" => placingType' = placingType
       /\ (placingType = NoType /\ placingType' # NoType) =>
            \E t \in ItemTypes : armPlacement(t)]_vars

\* SimpleEditor placed two items, each after its own arming, and is disarmed
C27_Witness ==
    /\ Live
    /\ variant = "SimpleEditor"
    /\ placingType = NoType
    /\ Len(placed.elems) = 2
    /\ selectedId = placed.elems[2].id
    /\ \A i \in 1..2 : placed.elems[i].id # PriorItem.id

\* C28, as stated: in every state of the running editor selectedId is null
\* or the id of an item that placed holds.
C28_SelectionValid ==
    Live => \/ selectedId = Null
            \/ \E i \in 1..Len(placed.elems) : placed.elems[i].id = selectedId

\* C29: an upload that set the busy flag (isLoadingFloor of the editor,
\* isLoading of Uploader) is followed, once its request has settled, by a
\* state where the flag is false again, whatever the answer was.
C29_BusyReleased ==
    /\ isLoadingFloor ~> ~isLoadingFloor
    /\ isLoading ~> ~isLoading

\* a conversion failed and the editor accepts uploads again
C29_Witness ==
    /\ Live
    /\ uploads > 0
    /\ message = "floor_failed"
    /\ awaiting = <<>>
    /\ ~isLoadingFloor

\* C30, as stated: the answer to a conversion request that was outstanding
\* when resetToDefaultFloor ran leaves floorUrl (the default) and the items
\* placed since the reset as they are.
C30_ResetNotOverridden ==
    [][((\E kind \in Responses : floorResponse(kind)) /\ resetDuring) =>
          /\ floorUrl' = floorUrl
          /\ placed' = placed]_vars

====
